---- MODULE Spec2Model ----
(***************************************************************************)
(* A model of taosrest.RestClient (src/taosrest/restclient.py): the login  *)
(* performed by the constructor, get_token(), sql() and _convert_time().   *)
(* Python strings whose content matters (timestamp cells) are sequences of *)
(* one-character strings; JSON values are records of one uniform shape.    *)
(***************************************************************************)
EXTENDS Integers, Sequences, FiniteSets, TLC

(***************************************************************************)
(* Bounds of the model.                                                    *)
(***************************************************************************)
\* operations (construction, get_token() and sql() calls) started in one run
MaxCalls == 3
\* rows in the data of one query response
MaxRows == 2

(***************************************************************************)
(* Characters and numbers.                                                 *)
(***************************************************************************)
Digits == {"0", "1", "2", "3", "4", "5", "6", "7", "8", "9"}

DigitVal(c) ==
    CASE c = "0" -> 0 [] c = "1" -> 1 [] c = "2" -> 2 [] c = "3" -> 3
      [] c = "4" -> 4 [] c = "5" -> 5 [] c = "6" -> 6 [] c = "7" -> 7
      [] c = "8" -> 8 [] c = "9" -> 9

\* int(s) of a sequence of digits
RECURSIVE IntOf(_)
IntOf(s) ==
    IF s = <<>> THEN 0
    ELSE 10 * IntOf(SubSeq(s, 1, Len(s) - 1)) + DigitVal(s[Len(s)])

\* the number of consecutive digits of s starting at position p
RECURSIVE DigitRun(_, _)
DigitRun(s, p) ==
    IF p > Len(s) \/ s[p] \notin Digits THEN 0 ELSE 1 + DigitRun(s, p + 1)

\* s padded on the right with "0" up to n characters
RECURSIVE PadRight(_, _)
PadRight(s, n) ==
    IF Len(s) >= n THEN s ELSE PadRight(Append(s, "0"), n)

IsLeap(y) ==
    (y % 4 = 0 /\ y % 100 # 0) \/ y % 400 = 0

DaysIn(y, m) ==
    IF m = 2 THEN (IF IsLeap(y) THEN 29 ELSE 28)
    ELSE IF m \in {4, 6, 9, 11} THEN 30 ELSE 31

(***************************************************************************)
(* JSON values as json.load produces them, and the datetime objects that   *)
(* _convert_time puts in their place.  Every cell is a record              *)
(* [kind, text, val]: text is the characters of a str, val the number of   *)
(* an int/float or the eight components of a datetime.                     *)
(***************************************************************************)
Str(s) == [kind |-> "str", text |-> s, val |-> <<>>]

Num(n) == [kind |-> "num", text |-> <<>>, val |-> <<n>>]

Null == [kind |-> "null", text |-> <<>>, val |-> <<>>]

\* datetime(y, mo, d, h, mi, s, us, tzinfo=timezone(timedelta(seconds=off)))
Datetime(y, mo, d, h, mi, s, us, off) ==
    [kind |-> "datetime", text |-> <<>>, val |-> <<y, mo, d, h, mi, s, us, off>>]

\* the value of a failed strptime: the exception it raises
ParseFail(exc) == [kind |-> "raise", text |-> <<exc>>, val |-> <<>>]

(***************************************************************************)
(* datetime.strptime(s, "%Y-%m-%dT%H:%M:%S.%f%z").                         *)
(* %Y is four digits; %m %d %H %M %S are one or two digits in range; %f is *)
(* one to six digits, padded on the right to microseconds; %z is Z or a    *)
(* sign, two digits of hours, an optional colon and two digits of minutes; *)
(* the whole string must be consumed and the date must exist.  (Offsets    *)
(* with a seconds part are not among the modelled inputs.)                 *)
(***************************************************************************)
\* the %z directive on the rest of the string: <<ok, utcoffset in seconds>>
ParseZ(z) ==
    IF z = <<"Z">> THEN <<TRUE, 0>>
    ELSE IF Len(z) \notin {5, 6} \/ z[1] \notin {"+", "-"} THEN <<FALSE, 0>>
    ELSE LET d == IF Len(z) = 6 THEN <<z[2], z[3], z[5], z[6]>>
                  ELSE <<z[2], z[3], z[4], z[5]>>
             colonOk == Len(z) = 5 \/ z[4] = ":"
         IN  IF ~colonOk \/ \E k \in 1..4 : d[k] \notin Digits THEN <<FALSE, 0>>
             ELSE LET hh == IntOf(<<d[1], d[2]>>)
                      mm == IntOf(<<d[3], d[4]>>)
                      off == hh * 3600 + mm * 60
                  IN  IF mm > 59 \/ hh > 23 THEN <<FALSE, 0>>
                      ELSE <<TRUE, IF z[1] = "-" THEN -off ELSE off>>

TIME_FORMAT == <<"%Y", "-", "%m", "-", "%d", "T", "%H", ":", "%M", ":", "%S", ".", "%f", "%z">>

\* the digits a numeric directive may take
WidthOf(f) ==
    CASE f = "%Y" -> {4}
      [] f = "%f" -> 1..6
      [] OTHER    -> {1, 2}

\* the number a numeric directive reads from its digits
ValueOf(f, digits) ==
    IF f = "%f" THEN IntOf(PadRight(digits, 6)) ELSE IntOf(digits)

\* s matched from position p against the directives of TIME_FORMAT from the
\* k-th on: the values read (year, month, day, hour, minute, second,
\* microsecond, utcoffset), or <<>> when s does not match
RECURSIVE MatchFrom(_, _, _, _)
MatchFrom(s, p, k, acc) ==
    IF k > Len(TIME_FORMAT) THEN (IF p = Len(s) + 1 THEN acc ELSE <<>>)
    ELSE IF TIME_FORMAT[k] = "%z"
    THEN LET z == ParseZ(SubSeq(s, p, Len(s)))
         IN  IF z[1] THEN MatchFrom(s, Len(s) + 1, k + 1, Append(acc, z[2])) ELSE <<>>
    ELSE IF TIME_FORMAT[k] \in {"%Y", "%m", "%d", "%H", "%M", "%S", "%f"}
    THEN LET n == DigitRun(s, p)
         IN  IF n \in WidthOf(TIME_FORMAT[k])
             THEN MatchFrom(s, p + n, k + 1,
                     Append(acc, ValueOf(TIME_FORMAT[k], SubSeq(s, p, p + n - 1))))
             ELSE <<>>
    ELSE IF p <= Len(s) /\ s[p] = TIME_FORMAT[k]
         THEN MatchFrom(s, p + 1, k + 1, acc)
         ELSE <<>>

\* the values read make a date and a time that exist
ValidFields(v) ==
    /\ v[1] >= 1
    /\ v[2] \in 1..12
    /\ v[3] >= 1 /\ v[3] <= DaysIn(v[1], v[2])
    /\ v[4] <= 23 /\ v[5] <= 59 /\ v[6] <= 59

\* strptime as it would be with the offset dropped and the value taken as UTC
StrptimeUtc(c) ==
    IF c.kind # "str" THEN ParseFail("TypeError")
    ELSE LET v == MatchFrom(c.text, 1, 1, <<>>)
         IN  IF v = <<>> THEN ParseFail("ValueError")
             ELSE IF ~ValidFields(v) THEN ParseFail("ValueError")
             ELSE Datetime(v[1], v[2], v[3], v[4], v[5], v[6], v[7], 0)

\* datetime.strptime(c, TIME_FORMAT): a datetime, or the exception raised
Strptime(c) ==
    IF c.kind # "str" THEN ParseFail("TypeError")
    ELSE LET v == MatchFrom(c.text, 1, 1, <<>>)
         IN  IF v = <<>> THEN ParseFail("ValueError")
             ELSE IF ~ValidFields(v) THEN ParseFail("ValueError")
             ELSE Datetime(v[1], v[2], v[3], v[4], v[5], v[6], v[7], v[8])

(***************************************************************************)
(* _convert_time(resp): for every column whose typeCode is 9, every row's  *)
(* cell is replaced in place by strptime of it, columns in order, rows in  *)
(* order; the first failing cell raises and leaves the earlier             *)
(* replacements in resp.  The value is [exc, data]: exc is "" on success.  *)
(***************************************************************************)
TIMESTAMP == 9

\* the row loop as it would be if a cell that does not parse were left as it is
RECURSIVE ConvertRowsSkipping(_, _, _)
ConvertRowsSkipping(data, i, r) ==
    IF r > Len(data) THEN [exc |-> "", data |-> data]
    ELSE IF i > Len(data[r]) THEN [exc |-> "IndexError", data |-> data]
    ELSE LET v == Strptime(data[r][i])
         IN  IF v.kind = "raise" THEN ConvertRowsSkipping(data, i, r + 1)
             ELSE ConvertRowsSkipping([data EXCEPT ![r][i] = v], i, r + 1)

RECURSIVE ConvertRows(_, _, _)
ConvertRows(data, i, r) ==
    IF r > Len(data) THEN [exc |-> "", data |-> data]
    ELSE IF i > Len(data[r]) THEN [exc |-> "IndexError", data |-> data]
    ELSE LET v == Strptime(data[r][i])
         IN  IF v.kind = "raise" THEN [exc |-> v.text[1], data |-> data]
             ELSE ConvertRows([data EXCEPT ![r][i] = v], i, r + 1)

\* the column loop as it would be without the test of the typeCode
RECURSIVE ConvertColsAll(_, _, _)
ConvertColsAll(meta, data, i) ==
    IF i > Len(meta) THEN [exc |-> "", data |-> data]
    ELSE LET c == ConvertRows(data, i, 1)
         IN  IF c.exc # "" THEN c ELSE ConvertColsAll(meta, c.data, i + 1)

RECURSIVE ConvertCols(_, _, _)
ConvertCols(meta, data, i) ==
    IF i > Len(meta) THEN [exc |-> "", data |-> data]
    ELSE IF meta[i].typeCode = TIMESTAMP
    THEN LET c == ConvertRows(data, i, 1)
         IN  IF c.exc # "" THEN c ELSE ConvertCols(meta, c.data, i + 1)
    ELSE ConvertCols(meta, data, i + 1)

ConvertTime(resp) == ConvertCols(resp.column_meta, resp.data, 1)

(***************************************************************************)
(* Decoded JSON documents.  One record shape serves the login response     *)
(* {code, desc} and the query response {status, head, column_meta, data,   *)
(* rows, desc, code}; a field the server did not send is empty.            *)
(***************************************************************************)
NoDoc ==
    [status |-> "", head |-> <<>>, column_meta |-> <<>>, data |-> <<>>,
     rows |-> 0, desc |-> "", code |-> 0]

LoginDoc(code, desc) == [NoDoc EXCEPT !.code = code, !.desc = desc]

Col(name, typeCode, typeSize) ==
    [name |-> name, typeCode |-> typeCode, typeSize |-> typeSize]

\* a response body on the wire: a JSON document, or bytes that are no JSON
Json(doc) == [json |-> TRUE, doc |-> doc]

NotJson == [json |-> FALSE, doc |-> NoDoc]

NoBody == [json |-> FALSE, doc |-> [NoDoc EXCEPT !.status = "<none>"]]

(***************************************************************************)
(* The inputs: what the server may answer.                                 *)
(***************************************************************************)
Tokens == {"tokA", "tokB"}

LoginDocs ==
    {LoginDoc(0, tok) : tok \in Tokens}
        \cup {LoginDoc(3, "Authentication failure"), LoginDoc(5, "tokA")}

LoginBodies == {Json(d) : d \in LoginDocs} \cup {NotJson}

DatePart == <<"2", "0", "2", "2", "-", "0", "4", "-", "2", "0">>

TimePart == <<"T", "1", "4", ":", "1", "6", ":", "0", "2", ".">>

\* "2022-04-20T14:16:02.522000+0800"
TsGood == DatePart \o TimePart \o <<"5", "2", "2", "0", "0", "0", "+", "0", "8", "0", "0">>

\* "2022-04-20T14:16:02.522-0530": millisecond fraction
TsMillis == DatePart \o TimePart \o <<"5", "2", "2", "-", "0", "5", "3", "0">>

\* "2022-04-20T14:16:02.522000+08:00": colon in the offset
TsColon == DatePart \o TimePart \o <<"5", "2", "2", "0", "0", "0", "+", "0", "8", ":", "0", "0">>

\* "2022-04-20 14:16:02": no T, no fraction, no offset
TsBad == DatePart \o <<" ", "1", "4", ":", "1", "6", ":", "0", "2">>

\* the cells the server may send in a column, by the column's name
CellsOf(name) ==
    CASE name = "ts" -> {Str(TsGood), Str(TsMillis), Str(TsBad), Null}
      [] name = "t0" -> {Str(TsGood), Str(TsBad)}
      [] name = "t1" -> {Str(TsColon), Str(TsBad)}
      [] OTHER       -> {Num(10), Str(TsGood)}

Metas ==
    { <<Col("ts", 9, 8)>>,
      <<Col("note", 8, 64), Col("ts", 9, 8)>>,
      <<Col("t0", 9, 8), Col("t1", 9, 8)>> }

HeadOf(meta) == [i \in 1..Len(meta) |-> meta[i].name]

RowsOf(meta) ==
    {row \in [1..Len(meta) -> UNION {CellsOf(meta[i].name) : i \in 1..Len(meta)}] :
        \A i \in 1..Len(meta) : row[i] \in CellsOf(meta[i].name)}

DataOf(meta, maxRows) ==
    UNION {[1..n -> RowsOf(meta)] : n \in 0..maxRows}

\* the query responses with at most maxRows rows over the given metas: the
\* rows field is the length of data or one more; an error response carries
\* desc and code, and may carry columns and data all the same
QueryDocs(metas, maxRows) ==
    UNION {
        {[status |-> st.status, head |-> HeadOf(m), column_meta |-> m, data |-> d,
          rows |-> Len(d) + extra, desc |-> st.desc, code |-> st.code] :
            st \in {[status |-> "succ", desc |-> "", code |-> 0],
                    [status |-> "error", desc |-> "Table does not exist", code |-> 866]},
            d \in DataOf(m, maxRows),
            extra \in {0, 1}} : m \in metas}

\* the query responses of the sequential runs
Responses == QueryDocs(Metas, MaxRows)

QueryBodies == {Json(d) : d \in Responses} \cup {NotJson}

\* the query responses of the runs with two concurrent callers
ConcResponses == QueryDocs({<<Col("ts", 9, 8)>>}, 1)

ConcQueryBodies == {Json(d) : d \in ConcResponses} \cup {NotJson}

(***************************************************************************)
(* The state.                                                              *)
(*   client   the RestClient object: whether __init__ has completed, and   *)
(*            its fields self.token and self.headers                       *)
(*   op, pc   per caller, the method it is running and its position in it  *)
(*   conn     per caller, the HTTP connection of the running call: its     *)
(*            state, the headers of the request sent on it and the body    *)
(*            the server answered on it                                    *)
(*   resp     per caller, the local variable resp                          *)
(*   outcome  per caller, how the call ended: a return or a raise          *)
(*   calls    the number of calls started                                  *)
(*   wire     the headers of every query request sent so far               *)
(*   loginResp the body answered to the constructor's login request        *)
(*   sqlFailed whether a sql() call has raised so far                      *)
(***************************************************************************)
VARIABLES client, op, pc, conn, resp, outcome, calls, wire, loginResp, sqlFailed

vars == <<client, op, pc, conn, resp, outcome, calls, wire, loginResp, sqlFailed>>

Callers == {"c1", "c2"}

\* "Taosd " + token
AuthValue(token) == <<"Taosd ", token>>

\* {"Authorization": "Taosd " + self.token}
AuthHeaders(token) == {[name |-> "Authorization", value |-> AuthValue(token)]}

NoConn == [state |-> "none", headers |-> {}, body |-> NoBody]

NoOutcome ==
    [kind |-> "none", exc |-> "", msg |-> "", errno |-> 0, ret |-> "", result |-> NoDoc]

Raise(exc) == [NoOutcome EXCEPT !.kind = "raise", !.exc = exc]

\* ConnectionError(desc, code) and ExecutionError(desc, code)
RaiseError(exc, desc, code) ==
    [NoOutcome EXCEPT !.kind = "raise", !.exc = exc, !.msg = desc, !.errno = code]

ReturnToken(token) == [NoOutcome EXCEPT !.kind = "return", !.ret = token]

ReturnResult(doc) == [NoOutcome EXCEPT !.kind = "return", !.result = doc]

Init ==
    /\ client = [state |-> "Unauthenticated", token |-> "", headers |-> {}]
    /\ op = [t \in Callers |-> "none"]
    /\ pc = [t \in Callers |-> "idle"]
    /\ conn = [t \in Callers |-> NoConn]
    /\ resp = [t \in Callers |-> NoDoc]
    /\ outcome = [t \in Callers |-> NoOutcome]
    /\ calls = 0
    /\ wire = {}
    /\ loginResp = NoBody
    /\ sqlFailed = FALSE

\* the call of caller t ends: an exception that leaves __init__ leaves no client
End(t, out) ==
    /\ pc' = [pc EXCEPT ![t] = "done"]
    /\ outcome' = [outcome EXCEPT ![t] = out]
    /\ client' = IF op[t] = "init" /\ out.kind = "raise"
                 THEN [client EXCEPT !.state = "Failed"]
                 ELSE client
    /\ sqlFailed' = (sqlFailed \/ (op[t] = "sql" /\ out.kind = "raise"))

(***************************************************************************)
(* RestClient(host, port, user, password): __init__ calls get_token().     *)
(***************************************************************************)
\* urlopen(self.login_url, timeout=self.timeout) sends the login request
LoginSend(t, kind) ==
    /\ pc[t] = "idle"
    /\ calls < MaxCalls
    /\ \A u \in Callers : op[u] # "init"
    /\ IF kind = "init" THEN client.state = "Unauthenticated"
       ELSE client.state = "Authenticated"
    /\ op' = [op EXCEPT ![t] = kind]
    /\ pc' = [pc EXCEPT ![t] = "sent"]
    /\ conn' = [conn EXCEPT ![t] = [state |-> "open", headers |-> {}, body |-> NoBody]]
    /\ calls' = calls + 1
    /\ UNCHANGED <<client, resp, outcome, wire, loginResp, sqlFailed>>

Construct(t) == LoginSend(t, "init")

GetTokenCall(t) == LoginSend(t, "get_token")

\* the query request as it would be sent without the stored headers
SqlSendNoHeaders(t) ==
    /\ pc[t] = "idle"
    /\ calls < MaxCalls
    /\ client.state = "Authenticated"
    /\ op' = [op EXCEPT ![t] = "sql"]
    /\ pc' = [pc EXCEPT ![t] = "sent"]
    /\ conn' = [conn EXCEPT ![t] = [state |-> "open", headers |-> {}, body |-> NoBody]]
    /\ wire' = wire \cup {{}}
    /\ calls' = calls + 1
    /\ UNCHANGED <<client, resp, outcome, loginResp, sqlFailed>>

\* data = q.encode("utf8"); request = Request(self.sql_utc_url, data, self.headers);
\* urlopen(request, timeout=self.timeout) sends the query request
SqlSend(t) ==
    /\ pc[t] = "idle"
    /\ calls < MaxCalls
    /\ client.state = "Authenticated"
    /\ op' = [op EXCEPT ![t] = "sql"]
    /\ pc' = [pc EXCEPT ![t] = "sent"]
    /\ conn' = [conn EXCEPT ![t] =
                    [state |-> "open", headers |-> client.headers, body |-> NoBody]]
    /\ wire' = wire \cup {client.headers}
    /\ calls' = calls + 1
    /\ UNCHANGED <<client, resp, outcome, loginResp, sqlFailed>>

\* urlopen returns the response object: the server has answered on t's connection
UrlopenReturn(t, body) ==
    /\ pc[t] = "sent"
    /\ pc' = [pc EXCEPT ![t] = "opened"]
    /\ conn' = [conn EXCEPT ![t].body = body]
    /\ loginResp' = IF op[t] = "init" THEN body ELSE loginResp
    /\ UNCHANGED <<client, op, resp, outcome, calls, wire, sqlFailed>>

\* urlopen raises (unreachable, timeout): the library has closed the connection
UrlopenFail(t) ==
    /\ pc[t] = "sent"
    /\ conn' = [conn EXCEPT ![t].state = "closed"]
    /\ End(t, Raise("URLError"))
    /\ UNCHANGED <<op, resp, calls, wire, loginResp>>

\* the response as it would be read from a slot the callers share: the other
\* caller's response, once there is one
ReceivedShared(t) ==
    LET u == CHOOSE v \in Callers : v # t
    IN  IF conn[u].body # NoBody THEN conn[u].body ELSE conn[t].body

\* the response that urlopen hands to caller t: the one on t's own connection
Received(t) == conn[t].body

\* resp = json.load(response): the body is read to its end, which closes the
\* connection, and decoded
JsonLoad(t) ==
    /\ pc[t] = "opened"
    /\ conn' = [conn EXCEPT ![t].state = "closed"]
    /\ IF Received(t).json
       THEN /\ resp' = [resp EXCEPT ![t] = Received(t).doc]
            /\ pc' = [pc EXCEPT ![t] = "loaded"]
            /\ UNCHANGED <<client, outcome, sqlFailed>>
       ELSE /\ End(t, Raise("JSONDecodeError"))
            /\ UNCHANGED resp
    /\ UNCHANGED <<op, calls, wire, loginResp>>

\* json.load(response) when the read of the body times out: the exception
\* leaves the method, and nothing in it closes the response
JsonLoadTimeout(t) ==
    /\ pc[t] = "opened"
    /\ End(t, Raise("timeout"))
    /\ UNCHANGED <<op, conn, resp, calls, wire, loginResp>>

\* get_token as it would be without the check of the code
GetTokenResultUnchecked(r) == ReturnToken(r.desc)

\* get_token: if resp["code"] != 0: raise ConnectionError(resp["desc"], resp["code"])
\*            return resp["desc"]
GetTokenResult(r) ==
    IF r.code # 0 THEN RaiseError("ConnectionError", r.desc, r.code)
    ELSE ReturnToken(r.desc)

\* get_token as it would be if it stored the token it returns
GetTokenCheckStores(t) ==
    /\ pc[t] = "loaded"
    /\ op[t] = "get_token"
    /\ pc' = [pc EXCEPT ![t] = "done"]
    /\ outcome' = [outcome EXCEPT ![t] = GetTokenResult(resp[t])]
    /\ client' = IF resp[t].code = 0
                 THEN [client EXCEPT !.token = resp[t].desc,
                                     !.headers = AuthHeaders(resp[t].desc)]
                 ELSE client
    /\ UNCHANGED <<op, conn, resp, calls, wire, loginResp, sqlFailed>>

\* a get_token() call of the caller ends; the client's fields are not written
GetTokenCheck(t) ==
    /\ pc[t] = "loaded"
    /\ op[t] = "get_token"
    /\ End(t, GetTokenResult(resp[t]))
    /\ UNCHANGED <<op, conn, resp, calls, wire, loginResp>>

\* __init__: self.token = self.get_token(); self.headers = {"Authorization": ...}
InitStore(t) ==
    /\ pc[t] = "loaded"
    /\ op[t] = "init"
    /\ LET out == GetTokenResult(resp[t])
       IN  /\ pc' = [pc EXCEPT ![t] = "done"]
           /\ outcome' = [outcome EXCEPT ![t] = out]
           /\ client' = IF out.kind = "raise"
                        THEN [client EXCEPT !.state = "Failed"]
                        ELSE [state |-> "Authenticated", token |-> out.ret,
                              headers |-> AuthHeaders(out.ret)]
    /\ UNCHANGED <<op, conn, resp, calls, wire, loginResp, sqlFailed>>

(***************************************************************************)
(* sql(q), after the request: the status check, the conversion, the return *)
(***************************************************************************)
\* sql as it would be without the check of the status
SqlCheckStatusSkipped(t) ==
    /\ pc[t] = "loaded"
    /\ op[t] = "sql"
    /\ pc' = [pc EXCEPT ![t] = "checked"]
    /\ UNCHANGED <<client, outcome, sqlFailed>>
    /\ UNCHANGED <<op, conn, resp, calls, wire, loginResp>>

\* if resp["status"] == "error": raise ExecutionError(resp["desc"], resp["code"])
SqlCheckStatus(t) ==
    /\ pc[t] = "loaded"
    /\ op[t] = "sql"
    /\ IF resp[t].status = "error"
       THEN End(t, RaiseError("ExecutionError", resp[t].desc, resp[t].code))
       ELSE /\ pc' = [pc EXCEPT ![t] = "checked"]
            /\ UNCHANGED <<client, outcome, sqlFailed>>
    /\ UNCHANGED <<op, conn, resp, calls, wire, loginResp>>

\* self._convert_time(resp): resp is rewritten in place, also when it raises
SqlConvertTime(t) ==
    /\ pc[t] = "checked"
    /\ LET c == ConvertTime(resp[t])
       IN  /\ resp' = [resp EXCEPT ![t].data = c.data]
           /\ IF c.exc # ""
              THEN End(t, Raise(c.exc))
              ELSE /\ pc' = [pc EXCEPT ![t] = "converted"]
                   /\ UNCHANGED <<client, outcome, sqlFailed>>
    /\ UNCHANGED <<op, conn, calls, wire, loginResp>>

\* return resp
SqlReturn(t) ==
    /\ pc[t] = "converted"
    /\ End(t, ReturnResult(resp[t]))
    /\ UNCHANGED <<op, conn, resp, calls, wire, loginResp>>

\* the caller has taken the outcome and may start another call; the frame of
\* the call, with its locals and its response object, is gone
Finish(t) ==
    /\ pc[t] = "done"
    /\ client.state = "Authenticated"
    /\ op' = [op EXCEPT ![t] = "none"]
    /\ pc' = [pc EXCEPT ![t] = "idle"]
    /\ conn' = [conn EXCEPT ![t] = NoConn]
    /\ resp' = [resp EXCEPT ![t] = NoDoc]
    /\ outcome' = [outcome EXCEPT ![t] = NoOutcome]
    /\ UNCHANGED <<client, calls, wire, loginResp, sqlFailed>>

\* the body the server answers to the request of caller t
BodiesFor(t, queryBodies) == IF op[t] = "sql" THEN queryBodies ELSE LoginBodies

Step(t, queryBodies) ==
    \/ Construct(t)
    \/ GetTokenCall(t)
    \/ SqlSend(t)
    \/ \E body \in BodiesFor(t, queryBodies) : UrlopenReturn(t, body)
    \/ UrlopenFail(t)
    \/ JsonLoad(t)
    \/ JsonLoadTimeout(t)
    \/ GetTokenCheck(t)
    \/ InitStore(t)
    \/ SqlCheckStatus(t)
    \/ SqlConvertTime(t)
    \/ SqlReturn(t)
    \/ Finish(t)

\* one caller uses the client: its calls follow one another
Next == Step("c1", QueryBodies)

Spec == Init /\ [][Next]_vars

\* two callers share the client: their calls interleave step by step
NextConcurrent == \E t \in Callers : Step(t, ConcQueryBodies)

SpecConcurrent == Init /\ [][NextConcurrent]_vars

(***************************************************************************)
(* Properties.                                                             *)
(***************************************************************************)
\* the document the server answered on the connection of caller t
Sent(t) == conn[t].body.doc

\* caller t's call has ended and the body of its response was decoded
Decoded(t) == pc[t] = "done" /\ conn[t].body.json /\ resp[t] # NoDoc

\* caller t's sql() call has returned a result
Returned(t) == op[t] = "sql" /\ pc[t] = "done" /\ outcome[t].kind = "return"

\* the positions <<r, i>> of the cells of the typeCode-9 columns of a document
TsCellsOf(doc) ==
    {p \in (1..Len(doc.data)) \X (1..Len(doc.column_meta)) :
        doc.column_meta[p[2]].typeCode = 9}

\* the ways a call can fail that are neither ExecutionError nor ConnectionError
GenericFailures ==
    {"URLError", "timeout", "JSONDecodeError", "ValueError", "TypeError", "IndexError"}

\* C1: every query request sent carries Authorization = "Taosd " + T, where T
\* is the desc of the successful login response, and no query request is sent
\* before that response has been received.
AuthHeaderOnEveryQuery ==
    /\ wire # {} => loginResp.json /\ loginResp.doc.code = 0
    /\ \A h \in wire :
          h = {[name |-> "Authorization", value |-> <<"Taosd ", loginResp.doc.desc>>]}
    /\ \A t \in Callers :
          op[t] = "sql" =>
              conn[t].headers =
                  {[name |-> "Authorization", value |-> <<"Taosd ", loginResp.doc.desc>>]}

\* a second query has been sent after a sql() call that raised
QuerySentAfterFailedSql ==
    /\ sqlFailed
    /\ op["c1"] = "sql" /\ pc["c1"] = "sent"
    /\ conn["c1"].headers = {[name |-> "Authorization", value |-> <<"Taosd ", "tokB">>]}

\* C2: a login response with code != 0 makes the construction raise
\* ConnectionError(desc, code) of that response; no token or header is stored,
\* no client exists and no query request is or can be sent.
LoginFailureRaisesConnectionError ==
    \A t \in Callers :
        (op[t] = "init" /\ Decoded(t) /\ Sent(t).code # 0) =>
            /\ outcome[t] = RaiseError("ConnectionError", Sent(t).desc, Sent(t).code)
            /\ client = [state |-> "Failed", token |-> "", headers |-> {}]
            /\ wire = {}
            /\ \A u \in Callers : op[u] # "sql" /\ ~ENABLED SqlSend(u)

\* the construction has failed on a login response whose desc looks like a token
ConstructionRejected ==
    /\ op["c1"] = "init" /\ Decoded("c1")
    /\ Sent("c1") = LoginDoc(5, "tokA")
    /\ outcome["c1"].exc = "ConnectionError"

\* C3: a query response with status "error" makes sql() raise
\* ExecutionError(desc, code) of that response and return nothing, and the
\* conversion pass never runs on it: its data is left as decoded.
ErrorStatusRaisesExecutionError ==
    \A t \in Callers :
        (op[t] = "sql" /\ conn[t].body.json /\ Sent(t).status = "error") =>
            /\ pc[t] \notin {"checked", "converted"}
            /\ resp[t] \in {NoDoc, Sent(t)}
            /\ Decoded(t) =>
                  outcome[t] = RaiseError("ExecutionError", Sent(t).desc, Sent(t).code)
            /\ outcome[t].result = NoDoc

\* an error response with a malformed and a missing timestamp has raised ExecutionError
ErrorResponseWithBadTimestamps ==
    /\ op["c1"] = "sql" /\ Decoded("c1")
    /\ Sent("c1").status = "error"
    /\ Sent("c1").column_meta = <<Col("ts", 9, 8)>>
    /\ Sent("c1").data = <<<<Str(TsBad)>>, <<Null>>>>
    /\ outcome["c1"].exc = "ExecutionError"

\* what each timestamp string of the inputs denotes: year, month, day, hour,
\* minute, second, microsecond, and the UTC offset in seconds
Denotes(text) ==
    CASE text = TsGood   -> <<2022, 4, 20, 14, 16, 2, 522000, 28800>>
      [] text = TsMillis -> <<2022, 4, 20, 14, 16, 2, 522000, -19800>>
      [] text = TsColon  -> <<2022, 4, 20, 14, 16, 2, 522000, 28800>>
      [] OTHER           -> <<>>

\* C4: in a returned result every cell of a typeCode-9 column is the
\* timezone-aware timestamp that the string sent in that cell denotes, with
\* the UTC offset of the string; none is still a string.
TimestampCellsConverted ==
    \A t \in Callers :
        Returned(t) =>
            /\ Len(outcome[t].result.data) = Len(Sent(t).data)
            /\ \A p \in TsCellsOf(Sent(t)) :
                  /\ outcome[t].result.data[p[1]][p[2]].kind = "datetime"
                  /\ outcome[t].result.data[p[1]][p[2]].val
                        = Denotes(Sent(t).data[p[1]][p[2]].text)

\* a result has been returned whose timestamps came with the offsets +0800 and -0530
TimestampsWithTwoOffsetsReturned ==
    /\ Returned("c1")
    /\ Sent("c1").column_meta = <<Col("note", 8, 64), Col("ts", 9, 8)>>
    /\ Sent("c1").data = <<<<Num(10), Str(TsGood)>>, <<Num(10), Str(TsMillis)>>>>
    /\ outcome["c1"].result.data[2][2].val[8] = -19800

\* C5: in a returned result every cell of a column whose typeCode is not 9 is
\* the decoded value, and status, head, column_meta and rows are the decoded
\* ones; only cells of typeCode-9 columns differ from the response.
NonTimestampCellsUnchanged ==
    \A t \in Callers :
        Returned(t) =>
            /\ outcome[t].result.status = Sent(t).status
            /\ outcome[t].result.head = Sent(t).head
            /\ outcome[t].result.column_meta = Sent(t).column_meta
            /\ outcome[t].result.rows = Sent(t).rows
            /\ outcome[t].result.desc = Sent(t).desc
            /\ outcome[t].result.code = Sent(t).code
            /\ Len(outcome[t].result.data) = Len(Sent(t).data)
            /\ \A r \in 1..Len(Sent(t).data) :
                  /\ Len(outcome[t].result.data[r]) = Len(Sent(t).data[r])
                  /\ \A i \in 1..Len(Sent(t).data[r]) :
                        Sent(t).column_meta[i].typeCode # 9 =>
                            outcome[t].result.data[r][i] = Sent(t).data[r][i]

\* a result has been returned with a timestamp-like string in a BINARY column
\* next to a converted timestamp
TimestampLikeStringKept ==
    /\ Returned("c1")
    /\ Sent("c1").column_meta = <<Col("note", 8, 64), Col("ts", 9, 8)>>
    /\ Len(Sent("c1").data) = 2
    /\ Sent("c1").data[2] = <<Str(TsGood), Str(TsGood)>>
    /\ outcome["c1"].result.data[2][1] = Str(TsGood)
    /\ outcome["c1"].result.data[2][2].kind = "datetime"

\* how sql() ends on a response body, when the body is read to its end
SqlOutcomeOf(body) ==
    IF ~body.json THEN Raise("JSONDecodeError")
    ELSE IF body.doc.status = "error"
    THEN RaiseError("ExecutionError", body.doc.desc, body.doc.code)
    ELSE IF ConvertTime(body.doc).exc # "" THEN Raise(ConvertTime(body.doc).exc)
    ELSE ReturnResult([body.doc EXCEPT !.data = ConvertTime(body.doc).data])

\* C6: with two sql() calls interleaved on one client, each request carries
\* the client's auth header, each call ends as the response on its own
\* connection decides, and the stored header stays the one built at login.
ConcurrentCallsIndependent ==
    /\ client.state = "Authenticated" =>
          /\ client.token = loginResp.doc.desc
          /\ client.headers = AuthHeaders(loginResp.doc.desc)
    /\ \A t \in Callers :
          op[t] = "sql" =>
              /\ conn[t].headers = client.headers
              /\ pc[t] \in {"loaded", "checked"} => resp[t] = Sent(t)
              /\ pc[t] = "done" =>
                    outcome[t] \in {SqlOutcomeOf(conn[t].body), Raise("timeout"),
                                    Raise("URLError")}

\* two sql() calls have run at once on different responses: one has returned
\* its result, the other has raised ExecutionError
TwoCallsEndedDifferently ==
    /\ Returned("c1") /\ Len(outcome["c1"].result.data) = 1
    /\ op["c2"] = "sql" /\ pc["c2"] = "done" /\ outcome["c2"].exc = "ExecutionError"
    /\ conn["c1"].body # conn["c2"].body

\* C7: no call ends with its connection still open.
ConnectionClosedWhenCallEnds ==
    \A t \in Callers : pc[t] = "done" => conn[t].state = "closed"

\* C8: a returned result has rows equal to the number of its data rows.
RowCountMatchesData ==
    \A t \in Callers :
        Returned(t) => outcome[t].result.rows = Len(outcome[t].result.data)

\* the characters at positions ps of s are all digits
DigitsAt(s, ps) == \A k \in ps : s[k] \in Digits

\* a string of the shape YYYY-MM-DDTHH:MM:SS.ffffff+HHMM (or -HHMM): six
\* digits of fraction, an offset without colon
ExactFormat(c) ==
    /\ c.kind = "str"
    /\ Len(c.text) = 31
    /\ DigitsAt(c.text, {1, 2, 3, 4, 6, 7, 9, 10, 12, 13, 15, 16, 18, 19})
    /\ DigitsAt(c.text, 21..26) /\ DigitsAt(c.text, 28..31)
    /\ c.text[5] = "-" /\ c.text[8] = "-" /\ c.text[11] = "T"
    /\ c.text[14] = ":" /\ c.text[17] = ":" /\ c.text[20] = "."
    /\ c.text[27] \in {"+", "-"}

\* sql() on the response of caller t has ended in a parse failure, with no result
EndedInParseFailure(t) ==
    /\ outcome[t].kind = "raise"
    /\ outcome[t].exc \in GenericFailures
    /\ outcome[t].result = NoDoc

\* C9 as stated: a "succ" response with a typeCode-9 cell that is not exactly
\* of the format YYYY-MM-DDTHH:MM:SS.ffffff+HHMM makes sql() end in a parse
\* failure and return no result.
InexactTimestampRaises ==
    \A t \in Callers :
        (op[t] = "sql" /\ Decoded(t) /\ Sent(t).status = "succ"
            /\ \E p \in TsCellsOf(Sent(t)) : ~ExactFormat(Sent(t).data[p[1]][p[2]]))
        => EndedInParseFailure(t)

\* C9, amended: a "succ" response with a typeCode-9 cell that strptime rejects
\* under TIME_FORMAT (or that is no string) makes sql() end in a parse failure
\* that is neither ExecutionError nor ConnectionError and return no result,
\* whichever row and column the cell is in; the conversion never completes.
RejectedTimestampRaises ==
    \A t \in Callers :
        (op[t] = "sql" /\ conn[t].body.json /\ Sent(t).status = "succ"
            /\ \E p \in TsCellsOf(Sent(t)) :
                  Strptime(Sent(t).data[p[1]][p[2]]).kind = "raise")
        => /\ pc[t] # "converted"
           /\ outcome[t].kind # "return"
           /\ Decoded(t) => EndedInParseFailure(t)

\* sql() has raised ValueError on a malformed cell in the last row of the last
\* column, after the cells before it were converted in resp; nothing is returned
PartlyConvertedNotReturned ==
    /\ op["c1"] = "sql" /\ Decoded("c1")
    /\ Sent("c1").status = "succ"
    /\ Sent("c1").data = <<<<Str(TsGood), Str(TsColon)>>, <<Str(TsGood), Str(TsBad)>>>>
    /\ resp["c1"].data[1][2].kind = "datetime"
    /\ resp["c1"].data[2][2] = Str(TsBad)
    /\ outcome["c1"].exc = "ValueError"
    /\ outcome["c1"].result = NoDoc

\* C10: once the construction has completed, no step changes the client: it
\* stays Authenticated with the token and the header written by __init__.
AuthenticatedForever ==
    [][client.state = "Authenticated" => client' = client]_vars

\* a later get_token() call has returned another token than the stored one,
\* after a sql() call had raised
OtherTokenReturnedLater ==
    /\ client.state = "Authenticated"
    /\ sqlFailed
    /\ op["c1"] = "get_token" /\ pc["c1"] = "done"
    /\ outcome["c1"].kind = "return"
    /\ outcome["c1"].ret # client.token

====
